---- MODULE Spec2Model ----
(***************************************************************************)
(* Quiz session state machine of the Telegram quiz bot                     *)
(* (src/telegram-bot/bot.py) together with the quiz-generation backend it  *)
(* calls (src/app/main.py, src/app/services.py, src/app/models.py).        *)
(*                                                                         *)
(* The bot keeps one dict, user_sessions, and three handlers touch it:     *)
(* quiz_command, answer_callback and the helper send_question.  Each       *)
(* handler is a coroutine; the model has one action per stretch of code    *)
(* between two awaits, and pc names the await the running handler is       *)
(* suspended at.  Every awaited Telegram call either returns or raises.    *)
(*                                                                         *)
(* Scheduling.  main() builds the application with                         *)
(* Application.builder().token(...).build() and registers the handlers     *)
(* with their default (blocking) mode, so the application awaits the       *)
(* handler of one update to its end (return or exception) before it takes  *)
(* the next update from the queue.  A new handler therefore starts only    *)
(* when pc = "idle"; pc = "done" is the state in which a handler has just  *)
(* ended and its frame still shows what it did.                            *)
(***************************************************************************)
EXTENDS Integers, Sequences, FiniteSets, TLC

VARIABLES
    user_sessions,  \* bot.py:31   user id -> session dict, or None when absent
    pc,             \* the await the running handler is suspended at; "done" when it
                    \* has ended, "idle" when the application waits for an update
    frame,          \* the running (or last finished) handler: its inputs, locals and outcome
    reported,       \* user id -> result messages delivered for the session last stored for it
    faults,         \* number of awaited Telegram calls that have raised so far
    prompts,        \* user id -> which question messages made for the user still show
                    \* their answer buttons
    tally           \* user id -> the answers graded for the user's session, in the
                    \* order they arrived

vars == <<user_sessions, pc, frame, reported, faults, prompts, tally>>

-----------------------------------------------------------------------------
(* Bounds of the model *)

\* longest question list the content provider returns in the model
MaxQuestions == 3

\* how many awaited Telegram calls may raise in one behaviour
MaxFaults == 1

\* how many question messages made for one user show their answer buttons at
\* a time; an update of the user that could add one more is not taken up
MaxShown == 2

-----------------------------------------------------------------------------
(* Values *)

\* the absent session (user_sessions.get gives None), and the absent message
None == [absent |-> TRUE]

Users == {1, 2}

\* the four option labels of a question (services.py:20-23, models.py:10-14)
Labels == {"A", "B", "C", "D"}

\* labels a callback query can carry: the bot's buttons carry A..D, but the
\* data of a callback query is whatever the client sends back
PressedLabels == Labels \cup {"E"}

\* Characters are one-character strings; a character that is not printable
\* ASCII is written by its code point.
Digits == <<"0", "1", "2", "3", "4", "5", "6", "7", "8", "9">>

\* the decimal digits int() takes (bot.py:99, 273): the characters of the
\* Unicode category Nd, script by script, each run in the order of its values
\* 0..9
DigitRuns ==
    { Digits,
      << "U+0660", "U+0661", "U+0662", "U+0663", "U+0664",
         "U+0665", "U+0666", "U+0667", "U+0668", "U+0669" >>,
      << "U+06F0", "U+06F1", "U+06F2", "U+06F3", "U+06F4",
         "U+06F5", "U+06F6", "U+06F7", "U+06F8", "U+06F9" >>,
      << "U+07C0", "U+07C1", "U+07C2", "U+07C3", "U+07C4",
         "U+07C5", "U+07C6", "U+07C7", "U+07C8", "U+07C9" >>,
      << "U+0966", "U+0967", "U+0968", "U+0969", "U+096A",
         "U+096B", "U+096C", "U+096D", "U+096E", "U+096F" >>,
      << "U+09E6", "U+09E7", "U+09E8", "U+09E9", "U+09EA",
         "U+09EB", "U+09EC", "U+09ED", "U+09EE", "U+09EF" >>,
      << "U+0A66", "U+0A67", "U+0A68", "U+0A69", "U+0A6A",
         "U+0A6B", "U+0A6C", "U+0A6D", "U+0A6E", "U+0A6F" >>,
      << "U+0AE6", "U+0AE7", "U+0AE8", "U+0AE9", "U+0AEA",
         "U+0AEB", "U+0AEC", "U+0AED", "U+0AEE", "U+0AEF" >>,
      << "U+0B66", "U+0B67", "U+0B68", "U+0B69", "U+0B6A",
         "U+0B6B", "U+0B6C", "U+0B6D", "U+0B6E", "U+0B6F" >>,
      << "U+0BE6", "U+0BE7", "U+0BE8", "U+0BE9", "U+0BEA",
         "U+0BEB", "U+0BEC", "U+0BED", "U+0BEE", "U+0BEF" >>,
      << "U+0C66", "U+0C67", "U+0C68", "U+0C69", "U+0C6A",
         "U+0C6B", "U+0C6C", "U+0C6D", "U+0C6E", "U+0C6F" >>,
      << "U+0CE6", "U+0CE7", "U+0CE8", "U+0CE9", "U+0CEA",
         "U+0CEB", "U+0CEC", "U+0CED", "U+0CEE", "U+0CEF" >>,
      << "U+0D66", "U+0D67", "U+0D68", "U+0D69", "U+0D6A",
         "U+0D6B", "U+0D6C", "U+0D6D", "U+0D6E", "U+0D6F" >>,
      << "U+0DE6", "U+0DE7", "U+0DE8", "U+0DE9", "U+0DEA",
         "U+0DEB", "U+0DEC", "U+0DED", "U+0DEE", "U+0DEF" >>,
      << "U+0E50", "U+0E51", "U+0E52", "U+0E53", "U+0E54",
         "U+0E55", "U+0E56", "U+0E57", "U+0E58", "U+0E59" >>,
      << "U+0ED0", "U+0ED1", "U+0ED2", "U+0ED3", "U+0ED4",
         "U+0ED5", "U+0ED6", "U+0ED7", "U+0ED8", "U+0ED9" >>,
      << "U+0F20", "U+0F21", "U+0F22", "U+0F23", "U+0F24",
         "U+0F25", "U+0F26", "U+0F27", "U+0F28", "U+0F29" >>,
      << "U+1040", "U+1041", "U+1042", "U+1043", "U+1044",
         "U+1045", "U+1046", "U+1047", "U+1048", "U+1049" >>,
      << "U+1090", "U+1091", "U+1092", "U+1093", "U+1094",
         "U+1095", "U+1096", "U+1097", "U+1098", "U+1099" >>,
      << "U+17E0", "U+17E1", "U+17E2", "U+17E3", "U+17E4",
         "U+17E5", "U+17E6", "U+17E7", "U+17E8", "U+17E9" >>,
      << "U+1810", "U+1811", "U+1812", "U+1813", "U+1814",
         "U+1815", "U+1816", "U+1817", "U+1818", "U+1819" >>,
      << "U+1946", "U+1947", "U+1948", "U+1949", "U+194A",
         "U+194B", "U+194C", "U+194D", "U+194E", "U+194F" >>,
      << "U+19D0", "U+19D1", "U+19D2", "U+19D3", "U+19D4",
         "U+19D5", "U+19D6", "U+19D7", "U+19D8", "U+19D9" >>,
      << "U+1A80", "U+1A81", "U+1A82", "U+1A83", "U+1A84",
         "U+1A85", "U+1A86", "U+1A87", "U+1A88", "U+1A89" >>,
      << "U+1A90", "U+1A91", "U+1A92", "U+1A93", "U+1A94",
         "U+1A95", "U+1A96", "U+1A97", "U+1A98", "U+1A99" >>,
      << "U+1B50", "U+1B51", "U+1B52", "U+1B53", "U+1B54",
         "U+1B55", "U+1B56", "U+1B57", "U+1B58", "U+1B59" >>,
      << "U+1BB0", "U+1BB1", "U+1BB2", "U+1BB3", "U+1BB4",
         "U+1BB5", "U+1BB6", "U+1BB7", "U+1BB8", "U+1BB9" >>,
      << "U+1C40", "U+1C41", "U+1C42", "U+1C43", "U+1C44",
         "U+1C45", "U+1C46", "U+1C47", "U+1C48", "U+1C49" >>,
      << "U+1C50", "U+1C51", "U+1C52", "U+1C53", "U+1C54",
         "U+1C55", "U+1C56", "U+1C57", "U+1C58", "U+1C59" >>,
      << "U+A620", "U+A621", "U+A622", "U+A623", "U+A624",
         "U+A625", "U+A626", "U+A627", "U+A628", "U+A629" >>,
      << "U+A8D0", "U+A8D1", "U+A8D2", "U+A8D3", "U+A8D4",
         "U+A8D5", "U+A8D6", "U+A8D7", "U+A8D8", "U+A8D9" >>,
      << "U+A900", "U+A901", "U+A902", "U+A903", "U+A904",
         "U+A905", "U+A906", "U+A907", "U+A908", "U+A909" >>,
      << "U+A9D0", "U+A9D1", "U+A9D2", "U+A9D3", "U+A9D4",
         "U+A9D5", "U+A9D6", "U+A9D7", "U+A9D8", "U+A9D9" >>,
      << "U+A9F0", "U+A9F1", "U+A9F2", "U+A9F3", "U+A9F4",
         "U+A9F5", "U+A9F6", "U+A9F7", "U+A9F8", "U+A9F9" >>,
      << "U+AA50", "U+AA51", "U+AA52", "U+AA53", "U+AA54",
         "U+AA55", "U+AA56", "U+AA57", "U+AA58", "U+AA59" >>,
      << "U+ABF0", "U+ABF1", "U+ABF2", "U+ABF3", "U+ABF4",
         "U+ABF5", "U+ABF6", "U+ABF7", "U+ABF8", "U+ABF9" >>,
      << "U+FF10", "U+FF11", "U+FF12", "U+FF13", "U+FF14",
         "U+FF15", "U+FF16", "U+FF17", "U+FF18", "U+FF19" >>,
      << "U+104A0", "U+104A1", "U+104A2", "U+104A3", "U+104A4",
         "U+104A5", "U+104A6", "U+104A7", "U+104A8", "U+104A9" >>,
      << "U+10D30", "U+10D31", "U+10D32", "U+10D33", "U+10D34",
         "U+10D35", "U+10D36", "U+10D37", "U+10D38", "U+10D39" >>,
      << "U+11066", "U+11067", "U+11068", "U+11069", "U+1106A",
         "U+1106B", "U+1106C", "U+1106D", "U+1106E", "U+1106F" >>,
      << "U+110F0", "U+110F1", "U+110F2", "U+110F3", "U+110F4",
         "U+110F5", "U+110F6", "U+110F7", "U+110F8", "U+110F9" >>,
      << "U+11136", "U+11137", "U+11138", "U+11139", "U+1113A",
         "U+1113B", "U+1113C", "U+1113D", "U+1113E", "U+1113F" >>,
      << "U+111D0", "U+111D1", "U+111D2", "U+111D3", "U+111D4",
         "U+111D5", "U+111D6", "U+111D7", "U+111D8", "U+111D9" >>,
      << "U+112F0", "U+112F1", "U+112F2", "U+112F3", "U+112F4",
         "U+112F5", "U+112F6", "U+112F7", "U+112F8", "U+112F9" >>,
      << "U+11450", "U+11451", "U+11452", "U+11453", "U+11454",
         "U+11455", "U+11456", "U+11457", "U+11458", "U+11459" >>,
      << "U+114D0", "U+114D1", "U+114D2", "U+114D3", "U+114D4",
         "U+114D5", "U+114D6", "U+114D7", "U+114D8", "U+114D9" >>,
      << "U+11650", "U+11651", "U+11652", "U+11653", "U+11654",
         "U+11655", "U+11656", "U+11657", "U+11658", "U+11659" >>,
      << "U+116C0", "U+116C1", "U+116C2", "U+116C3", "U+116C4",
         "U+116C5", "U+116C6", "U+116C7", "U+116C8", "U+116C9" >>,
      << "U+11730", "U+11731", "U+11732", "U+11733", "U+11734",
         "U+11735", "U+11736", "U+11737", "U+11738", "U+11739" >>,
      << "U+118E0", "U+118E1", "U+118E2", "U+118E3", "U+118E4",
         "U+118E5", "U+118E6", "U+118E7", "U+118E8", "U+118E9" >>,
      << "U+11950", "U+11951", "U+11952", "U+11953", "U+11954",
         "U+11955", "U+11956", "U+11957", "U+11958", "U+11959" >>,
      << "U+11C50", "U+11C51", "U+11C52", "U+11C53", "U+11C54",
         "U+11C55", "U+11C56", "U+11C57", "U+11C58", "U+11C59" >>,
      << "U+11D50", "U+11D51", "U+11D52", "U+11D53", "U+11D54",
         "U+11D55", "U+11D56", "U+11D57", "U+11D58", "U+11D59" >>,
      << "U+11DA0", "U+11DA1", "U+11DA2", "U+11DA3", "U+11DA4",
         "U+11DA5", "U+11DA6", "U+11DA7", "U+11DA8", "U+11DA9" >>,
      << "U+16A60", "U+16A61", "U+16A62", "U+16A63", "U+16A64",
         "U+16A65", "U+16A66", "U+16A67", "U+16A68", "U+16A69" >>,
      << "U+16AC0", "U+16AC1", "U+16AC2", "U+16AC3", "U+16AC4",
         "U+16AC5", "U+16AC6", "U+16AC7", "U+16AC8", "U+16AC9" >>,
      << "U+16B50", "U+16B51", "U+16B52", "U+16B53", "U+16B54",
         "U+16B55", "U+16B56", "U+16B57", "U+16B58", "U+16B59" >>,
      << "U+1D7CE", "U+1D7CF", "U+1D7D0", "U+1D7D1", "U+1D7D2",
         "U+1D7D3", "U+1D7D4", "U+1D7D5", "U+1D7D6", "U+1D7D7" >>,
      << "U+1D7D8", "U+1D7D9", "U+1D7DA", "U+1D7DB", "U+1D7DC",
         "U+1D7DD", "U+1D7DE", "U+1D7DF", "U+1D7E0", "U+1D7E1" >>,
      << "U+1D7E2", "U+1D7E3", "U+1D7E4", "U+1D7E5", "U+1D7E6",
         "U+1D7E7", "U+1D7E8", "U+1D7E9", "U+1D7EA", "U+1D7EB" >>,
      << "U+1D7EC", "U+1D7ED", "U+1D7EE", "U+1D7EF", "U+1D7F0",
         "U+1D7F1", "U+1D7F2", "U+1D7F3", "U+1D7F4", "U+1D7F5" >>,
      << "U+1D7F6", "U+1D7F7", "U+1D7F8", "U+1D7F9", "U+1D7FA",
         "U+1D7FB", "U+1D7FC", "U+1D7FD", "U+1D7FE", "U+1D7FF" >>,
      << "U+1E140", "U+1E141", "U+1E142", "U+1E143", "U+1E144",
         "U+1E145", "U+1E146", "U+1E147", "U+1E148", "U+1E149" >>,
      << "U+1E2F0", "U+1E2F1", "U+1E2F2", "U+1E2F3", "U+1E2F4",
         "U+1E2F5", "U+1E2F6", "U+1E2F7", "U+1E2F8", "U+1E2F9" >>,
      << "U+1E950", "U+1E951", "U+1E952", "U+1E953", "U+1E954",
         "U+1E955", "U+1E956", "U+1E957", "U+1E958", "U+1E959" >>,
      << "U+1FBF0", "U+1FBF1", "U+1FBF2", "U+1FBF3", "U+1FBF4",
         "U+1FBF5", "U+1FBF6", "U+1FBF7", "U+1FBF8", "U+1FBF9" >> }

DigitChars == UNION { {run[i] : i \in 1..10} : run \in DigitRuns }

DigitValue(c) ==
    IF \E i \in 1..10 : Digits[i] = c
    THEN (CHOOSE i \in 1..10 : Digits[i] = c) - 1
    ELSE (CHOOSE i \in 1..10 : \E run \in DigitRuns : run[i] = c) - 1

\* the whitespace int() strips from both ends of its argument
Whitespace ==
    { "U+0009", "U+000A", "U+000B", "U+000C", "U+000D", " ",
      "U+0085", "U+00A0", "U+1680", "U+2000", "U+2001", "U+2002",
      "U+2003", "U+2004", "U+2005", "U+2006", "U+2007", "U+2008",
      "U+2009", "U+200A", "U+2028", "U+2029", "U+202F", "U+205F",
      "U+3000" }

\* the words a /quiz command is made of in the model, as character sequences
TopicWord == <<"G", "o">>

\* models.py:6  max_length of QuizRequest.topic
MaxTopicLength == 100

\* a topic word one character longer than the backend takes
LongTopicWord == [i \in 1..(MaxTopicLength + 1) |-> "x"]

NumberWords ==
    { <<"2">>, <<"3">>, <<"3", "1">>, <<"0", "_", "2">>, <<"U+0969">>,
      <<"-", "3">>, <<"3", ".", "5">>, <<"t", "e", "n">>,
      <<"_", "3">>, <<"1", "_", "_", "0">> }

\* context.args of a /quiz update: none, one or two words
ArgLists ==
    { <<>>, <<TopicWord>>, <<LongTopicWord, <<"3">>>> }
    \cup { <<TopicWord, w>> : w \in NumberWords }

-----------------------------------------------------------------------------
(* quiz_command: parsing and validating the arguments *)

\* w without the whitespace at its two ends
Stripped(w) ==
    LET kept == {i \in 1..Len(w) : w[i] \notin Whitespace}
    IN  IF kept = {} THEN <<>>
        ELSE SubSeq(w, CHOOSE i \in kept : \A j \in kept : i <= j,
                       CHOOSE i \in kept : \A j \in kept : i >= j)

\* Python int(str): it strips the whitespace at the two ends and succeeds on
\* an optional sign followed by decimal digits, which single underscores may
\* group (one between two digits); it raises ValueError on anything else
IsIntLiteral(w) ==
    LET word == Stripped(w)
        body == IF Len(word) > 0 /\ word[1] \in {"+", "-"} THEN Tail(word) ELSE word
    IN  /\ Len(body) > 0
        /\ \A i \in 1..Len(body) : body[i] \in DigitChars \cup {"_"}
        /\ body[1] # "_" /\ body[Len(body)] # "_"
        /\ \A i \in 1..(Len(body) - 1) : body[i] # "_" \/ body[i + 1] # "_"

IsDigitChar(c) == c \in DigitChars

RECURSIVE DigitsValue(_)
\* the value of a run of digits; the grouping underscores count for nothing
DigitsValue(ds) ==
    IF SelectSeq(ds, IsDigitChar) = <<>> THEN 0
    ELSE LET digits == SelectSeq(ds, IsDigitChar)
         IN  10 * DigitsValue(SubSeq(digits, 1, Len(digits) - 1))
                + DigitValue(digits[Len(digits)])

IntOf(w) ==
    LET word == Stripped(w)
    IN  IF word[1] = "-" THEN 0 - DigitsValue(Tail(word))
        ELSE IF word[1] = "+" THEN DigitsValue(Tail(word))
        ELSE DigitsValue(word)

\* NumberAccepted with the lower limit off by one
NumberAcceptedFromTwo(w) ==
    /\ IsIntLiteral(w)
    /\ ~ (IntOf(w) < 2 \/ IntOf(w) > 30)

\* bot.py:98-102: int(num_questions) succeeds and 3 <= num_questions <= 30
NumberAccepted(w) ==
    /\ IsIntLiteral(w)
    /\ ~ (IntOf(w) < 3 \/ IntOf(w) > 30)

RECURSIVE Join(_)
\* bot.py:93: " ".join(words)
Join(words) ==
    IF words = <<>> THEN <<>>
    ELSE IF Len(words) = 1 THEN words[1]
    ELSE words[1] \o <<" ">> \o Join(Tail(words))

\* bot.py:92-93
ParsedNumber(args) == args[Len(args)]

ParsedTopic(args) == Join(SubSeq(args, 1, Len(args) - 1))

-----------------------------------------------------------------------------
(* The content provider: the backend of src/app and the language model *)

\* a question as far as the session logic reads it: its correct label.  The
\* text and the four options A..D are always present (models.py:10-20) and
\* only ever copied into messages.
Question(l) == [correct_answer |-> l]

AnswerKey == <<"B", "A", "D", "C">>

\* the question lists the language model returns in the model: the first n
\* questions of a fixed quiz, for n = 0, 1 and MaxQuestions
QuestionList(n) == [i \in 1..n |-> Question(AnswerKey[((i - 1) % 4) + 1])]

QuestionLists == { QuestionList(n) : n \in {0, 1, MaxQuestions} }

\* what the language model call of services.py:38-54 can produce
LlmReplies ==
    { [kind |-> k, questions |-> <<>>] :
        k \in {"apierror", "notjson", "noquestions", "badquestion"} }
    \cup { [kind |-> "quiz", questions |-> qs] : qs \in QuestionLists }

\* models.py:5-7  QuizRequest
QuizRequestValid(topic, num_questions) ==
    /\ Len(topic) >= 1 /\ Len(topic) <= MaxTopicLength
    /\ num_questions >= 3 /\ num_questions <= 30

\* services.py:11-80  GroqService.generate_quiz: the questions the reply holds
\* are copied one by one, however many there are; a reply that is not JSON
\* raises ValueError, any other failure raises Exception
GroqService_generate_quiz(topic, num_questions, llm) ==
    CASE llm.kind = "quiz" ->
            [raised |-> "none", topic |-> topic, questions |-> llm.questions]
      [] llm.kind = "notjson" ->
            [raised |-> "ValueError", topic |-> topic, questions |-> <<>>]
      [] OTHER ->
            [raised |-> "Exception", topic |-> topic, questions |-> <<>>]

\* the body of an HTTP answer as the bot reads it
Body(json, keys, topic, questions) ==
    [json |-> json, keys |-> keys, topic |-> topic, questions |-> questions]

NoBody == Body(FALSE, {}, <<>>, <<>>)

HttpAnswer(exc, status, body) == [exc |-> exc, status |-> status, body |-> body]

\* requests.post has not been called
NotCalled == HttpAnswer("notcalled", 0, NoBody)

\* main.py:50-67  POST /api/quiz/generate
generate_quiz(topic, num_questions, llm) ==
    IF ~ QuizRequestValid(topic, num_questions)
    THEN HttpAnswer("none", 422, NoBody)
    ELSE LET quiz == GroqService_generate_quiz(topic, num_questions, llm)
         IN  CASE quiz.raised = "ValueError" -> HttpAnswer("none", 400, NoBody)
               [] quiz.raised = "Exception"  -> HttpAnswer("none", 500, NoBody)
               [] OTHER ->
                    HttpAnswer("none", 200,
                               Body(TRUE, {"topic", "questions"},
                                    quiz.topic, quiz.questions))

\* bot.py:120-124  what requests.post can give the bot: an exception of the
\* requests library, the answer of the backend above, or (BACKEND_URL is read
\* from the environment, bot.py:21) a 200 answer of some other server whose
\* body is not the backend's
PostOutcomes(topic, num_questions) ==
    { HttpAnswer(e, 0, NoBody) : e \in {"ConnectionError", "Timeout", "RequestException"} }
    \cup { generate_quiz(topic, num_questions, llm) : llm \in LlmReplies }
    \cup { HttpAnswer("none", 200, Body(FALSE, {}, <<>>, <<>>)),
           HttpAnswer("none", 200, Body(TRUE, {"questions"}, <<>>, QuestionList(MaxQuestions))),
           HttpAnswer("none", 200, Body(TRUE, {"topic"}, topic, <<>>)) }

\* PostUsable without the read of quiz_data["topic"]
PostUsableWithoutTopic(resp) ==
    /\ resp.exc = "none"
    /\ resp.status = 200
    /\ resp.body.json
    /\ "questions" \in resp.body.keys

\* bot.py:128-143: whether the code gets as far as storing the session.  It
\* does not when requests.post raised, the status is not 200, the body is not
\* JSON, or quiz_data['questions'] / quiz_data["topic"] raises KeyError.
PostUsable(resp) ==
    /\ resp.exc = "none"
    /\ resp.status = 200
    /\ resp.body.json
    /\ "questions" \in resp.body.keys
    /\ "topic" \in resp.body.keys

\* bot.py:138-143: the session dict stored for a usable answer
NewSession(quiz_data) ==
    [ topic            |-> quiz_data.topic,
      questions        |-> quiz_data.questions,
      current_question |-> 0,
      score            |-> 0 ]

\* StoreSession that carries the progress of a session already there over
StoreSessionKeepingProgress(sessions, user_id, session) ==
    [sessions EXCEPT ![user_id] =
        IF @ = None THEN session
        ELSE [session EXCEPT !.current_question = sessions[user_id].current_question,
                             !.score = sessions[user_id].score]]

\* bot.py:138: user_sessions[user_id] = {...}
StoreSession(sessions, user_id, session) ==
    [sessions EXCEPT ![user_id] = session]

\* bot.py:217: del user_sessions[user_id] raises KeyError when the dict has
\* no such key
DeleteRaises(sessions, user_id) == sessions[user_id] = None

\* bot.py:217: del user_sessions[user_id], the key being there
DeleteSession(sessions, user_id) ==
    [sessions EXCEPT ![user_id] = None]

\* bot.py:183, 282: user_sessions.get(user_id)
GetSession(sessions, user_id) == sessions[user_id]

-----------------------------------------------------------------------------
(* The float arithmetic of bot.py:195-204.  A Python float is an IEEE 754   *)
(* binary64 number, and every operation rounds its exact result to the      *)
(* nearest float, ties to the even significand.  A positive float is the   *)
(* record [hi, mid, lo, exp]: its 53-bit significand is                     *)
(* hi * Limb^2 + mid * Limb + lo, cut into limbs of 17, 18 and 18 bits with *)
(* the leading bit set (HighOne <= hi < 2 * HighOne), and its value is the  *)
(* significand times 2^exp.                                                *)

\* bits in the significand of a binary64 float
Precision == 53

\* bits in the two lower limbs
LimbBits == 18

Limb == 2 ^ LimbBits

\* the leading bit of the top limb
HighOne == 2 ^ (Precision - 2 * LimbBits - 1)

FloatZero == [hi |-> 0, mid |-> 0, lo |-> 0, exp |-> 0]

RECURSIVE BitLength(_)
\* the number of bits of n >= 0
BitLength(n) == IF n = 0 THEN 0 ELSE 1 + BitLength(n \div 2)

\* the float with the next significand
Successor(f) ==
    IF f.lo + 1 < Limb THEN [f EXCEPT !.lo = @ + 1]
    ELSE IF f.mid + 1 < Limb THEN [f EXCEPT !.lo = 0, !.mid = @ + 1]
    ELSE IF f.hi + 1 < 2 * HighOne THEN [f EXCEPT !.lo = 0, !.mid = 0, !.hi = @ + 1]
    ELSE [hi |-> HighOne, mid |-> 0, lo |-> 0, exp |-> f.exp + 1]

\* Rounded with the bits past the significand dropped (round toward zero)
Truncated(f, guard, sticky) == f

\* the float nearest to an exact value, ties to even: f holds the first 53
\* bits of the value, guard is the bit after them, and sticky says whether
\* any bit after the guard is set
Rounded(f, guard, sticky) ==
    IF guard = 1 /\ (sticky \/ f.lo % 2 = 1) THEN Successor(f) ELSE f

RECURSIVE LeadShift(_, _)
\* the least k with a * 2^k >= b
LeadShift(a, b) == IF a >= b THEN 0 ELSE 1 + LeadShift(2 * a, b)

\* a / b of two ints, 0 <= a < 2^10 and 0 < b < 2^10 (bot.py:195,
\* score / total): a or b is scaled by a power of two so that the quotient
\* n / d is in [1, 2), and the bits after the leading one come from the long
\* division of the remainder, a limb at a time; the last step yields the
\* guard bit as well
TrueDiv(a, b) ==
    IF a = 0 THEN FloatZero
    ELSE LET k  == LeadShift(a, b)
             j  == LeadShift(b, a + 1) - 1
             n  == a * (2 ^ k)
             d  == IF a >= b THEN b * (2 ^ j) ELSE b
             r  == n - d
             c1 == (r * HighOne) \div d
             r1 == (r * HighOne) % d
             c2 == (r1 * Limb) \div d
             r2 == (r1 * Limb) % d
             c3 == (r2 * 2 * Limb) \div d
             r3 == (r2 * 2 * Limb) % d
         IN  Rounded([ hi  |-> HighOne + c1,
                       mid |-> c2,
                       lo  |-> c3 \div 2,
                       exp |-> (IF a >= b THEN j ELSE 0 - k) - (Precision - 1) ],
                     c3 % 2, r3 > 0)

\* f * c for an int 2 <= c < 2^10 (bot.py:195, * 100): the exact product limb
\* by limb with the carries passed up, then its first 53 bits, the guard and
\* the sticky bit
FloatTimes(f, c) ==
    IF f = FloatZero THEN FloatZero
    ELSE LET pl == f.lo * c
             pm == f.mid * c + pl \div Limb
             ph == f.hi * c + pm \div Limb
             m  == pm % Limb
             l  == pl % Limb
             s  == BitLength(ph) - (Precision - 2 * LimbBits)
             S  == 2 ^ s
             T  == Limb \div S
         IN  Rounded([ hi  |-> ph \div S,
                       mid |-> (ph % S) * T + m \div S,
                       lo  |-> (m % S) * T + l \div S,
                       exp |-> f.exp + s ],
                     (l % S) \div (S \div 2), (l % S) % (S \div 2) > 0)

\* float(c) of an int 0 < c < 2 * HighOne: exact
FloatOfInt(c) ==
    [ hi  |-> c * (2 ^ (Precision - 2 * LimbBits - BitLength(c))),
      mid |-> 0,
      lo  |-> 0,
      exp |-> BitLength(c) - Precision ]

\* f >= c for an int 0 < c < 2 * HighOne (bot.py:204); the lower limbs of
\* float(c) are 0
FloatGE(f, c) ==
    /\ f # FloatZero
    /\ \/ f.exp > FloatOfInt(c).exp
       \/ f.exp = FloatOfInt(c).exp /\ f.hi >= FloatOfInt(c).hi

\* "{:.1f}".format(f) (bot.py:202) in tenths, for f = 0 or
\* 2^-14 <= f < 2^16: the decimal with one digit after the point nearest to
\* the exact value of f, ties to the even digit.  10 * f is computed exactly;
\* the binary point is in its top limb.
OneDecimal(f) ==
    IF f = FloatZero THEN 0
    ELSE LET pl    == f.lo * 10
             pm    == f.mid * 10 + pl \div Limb
             ph    == f.hi * 10 + pm \div Limb
             F     == 2 ^ (0 - f.exp - 2 * LimbBits)
             whole == ph \div F
             more  == \/ (ph % F) % (F \div 2) > 0
                      \/ pm % Limb > 0
                      \/ pl % Limb > 0
             up    == (ph % F) \div (F \div 2) = 1 /\ (more \/ whole % 2 = 1)
         IN  IF up THEN whole + 1 ELSE whole

-----------------------------------------------------------------------------
(* send_question and the final result *)

Total(session) == Len(session.questions)

\* bot.py:195: percentage = (session["score"] / len(questions)) * 100; the
\* quotient is a value of its own, rounded before it is multiplied
FloatPercentage(score, total) ==
    CHOOSE percentage \in {FloatTimes(quotient, 100) :
                              quotient \in {TrueDiv(score, total)}} : TRUE

\* bot.py:202: the percentage as the result message shows it ("{:.1f}"), in
\* tenths of a percent
Percentage(score, total) == OneDecimal(FloatPercentage(score, total))

\* bot.py:204: percentage >= 80, else percentage >= 60, else the rest
Tier(score, total) ==
    LET percentage == FloatPercentage(score, total)
    IN  IF FloatGE(percentage, 80) THEN "top"
        ELSE IF FloatGE(percentage, 60) THEN "middle"
        ELSE "low"

\* bot.py:193-207: the result message
ResultMessage(session) ==
    [ score      |-> session.score,
      total      |-> Total(session),
      percentage |-> Percentage(session.score, Total(session)),
      tier       |-> Tier(session.score, Total(session)) ]

\* QuizFinished one question late
QuizFinishedPastEnd(session) == session.current_question > Total(session)

\* bot.py:191: if current_idx >= len(questions)
QuizFinished(session) == session.current_question >= Total(session)

\* bot.py:183-258: send_question up to its await.  "return" when there is no
\* session; in the finished branch the division of line 195 raises
\* ZeroDivisionError for an empty question list, otherwise the result message
\* is sent; else the current question is sent.
SendQuestionBranch(sessions, user_id) ==
    LET session == GetSession(sessions, user_id)
    IN  IF session = None THEN "return"
        ELSE IF QuizFinished(session)
             THEN IF Total(session) = 0 THEN "ZeroDivisionError" ELSE "sq_result"
             ELSE "sq_question"

-----------------------------------------------------------------------------
(* answer_callback: callback data and grading *)

RECURSIVE DigitsOf(_)
\* str(n) for n >= 0
DigitsOf(n) ==
    IF n < 10 THEN <<Digits[n + 1]>>
    ELSE DigitsOf(n \div 10) \o <<Digits[(n % 10) + 1]>>

\* bot.py:237-246: callback_data = f"answer_{label}_{user_id}", as the list
\* that split("_") of line 272 makes of it
CallbackData(label, user_id) == <<"answer", label, DigitsOf(user_id)>>

\* callback data that matches "^answer_" (bot.py:358) and that lines 272-273
\* cannot take apart: one part too few, and an owner part that is no number
MalformedData == { <<"answer", "A">>, <<"answer", "A", <<"x">>>> }

\* callback data no button carries and lines 272-273 take apart all the
\* same: the owner part is 1 in another script, between whitespace
PaddedData == { <<"answer", "B", <<" ", "U+0967", "U+000A">>>> }

\* the data a callback query can carry: what a button carries, or whatever
\* else the client sends back
PressedData ==
    {CallbackData(l, o) : l \in PressedLabels, o \in Users}
    \cup PaddedData \cup MalformedData

\* bot.py:272-273: the unpacking of split("_") takes exactly three parts and
\* int(user_id_str) a number; otherwise ValueError
DataWellFormed(data) == Len(data) = 3 /\ IsIntLiteral(data[3])

\* bot.py:272-273
DataLabel(data) == data[2]

DataUser(data) == IntOf(data[3])

\* NotYourQuiz with the check left out
NotYourQuizNever(effective_user, user_id) == FALSE

\* bot.py:278: if update.effective_user.id != user_id
NotYourQuiz(effective_user, user_id) == effective_user # user_id

\* bot.py:295
IsCorrect(selected_answer, question) == selected_answer = question.correct_answer

\* Graded without the test of is_correct: every answer scores
GradedEveryAnswer(session, selected_answer) ==
    [session EXCEPT !.score = @ + 1]

\* bot.py:299-300: session["score"] += 1 when the answer is correct
Graded(session, selected_answer) ==
    IF IsCorrect(selected_answer, session.questions[session.current_question + 1])
    THEN [session EXCEPT !.score = @ + 1]
    ELSE session

\* bot.py:334: session["current_question"] += 1
Advanced(session) == [session EXCEPT !.current_question = @ + 1]

-----------------------------------------------------------------------------
(* The question messages on the users' screens, bot.py:234-261, 285 and 331 *)

\* Of the question messages made for a user, those that still show their
\* answer buttons.  live: the message sent for the current question of the
\* user's stored session (bot.py:252-261) does; earlier: how many messages
\* sent for earlier questions of that session do; stale: how many question
\* messages of sessions of the user that were replaced or removed do.
\* Nothing in the code edits a message other than the one pressed.
NoPrompts == [live |-> FALSE, earlier |-> 0, stale |-> 0]

\* the number of messages of the user with answer buttons
Shown(p) == (IF p.live THEN 1 ELSE 0) + p.earlier + p.stale

\* bot.py:138, 217: the user's session is replaced or removed; no code path
\* edits the question messages it had on screen
PromptsOrphaned(p) == [live |-> FALSE, earlier |-> 0, stale |-> Shown(p)]

\* The message a callback query comes from.  A client can send a query on any
\* message of the bot that has an inline keyboard: on a question message that
\* shows its answer buttons (made for user owner; live, earlier or stale), or
\* on one that shows none (NoButtons).
Kinds == {"live", "earlier", "stale"}

NoButtons == [owner |-> 0, kind |-> "none"]

Sources == {NoButtons} \cup [owner : Users, kind : Kinds]

\* the message is on screen with its buttons
CanPress(ps, source) ==
    IF source = NoButtons THEN TRUE
    ELSE CASE source.kind = "live"    -> ps[source.owner].live
           [] source.kind = "earlier" -> ps[source.owner].earlier > 0
           [] source.kind = "stale"   -> ps[source.owner].stale > 0

\* where the callback data comes from: a button of the message (bot.py:237-246:
\* the buttons of the question messages made for user o carry
\* answer_<label>_<o> with the labels A..D), or a client that sends data of
\* its own making
Origins == Kinds \cup {"forged"}

Origin(data, source) ==
    IF /\ source # NoButtons
       /\ \E l \in Labels : data = CallbackData(l, source.owner)
    THEN source.kind
    ELSE "forged"

\* bot.py:285, 331: edit_message_text on the message the query came from
\* takes its answer buttons off (331 puts buttons with the data
\* "disabled_..." in their place)
PromptsAfterEdit(ps, source) ==
    IF source = NoButtons THEN ps
    ELSE [ps EXCEPT ![source.owner] =
            CASE source.kind = "live"    -> [@ EXCEPT !.live = FALSE]
              [] source.kind = "earlier" -> [@ EXCEPT !.earlier = @ - 1]
              [] source.kind = "stale"   -> [@ EXCEPT !.stale = @ - 1]]

\* bot.py:334: the index moves on; a live message that still has its buttons
\* is from now on a message of an earlier question
PromptsAfterAdvance(p) ==
    IF p.live THEN [p EXCEPT !.live = FALSE, !.earlier = @ + 1] ELSE p

\* the handler of this answer update can end with one more question message
\* of user u on screen than there was: its data names u as the owner
\* (bot.py:278), u has a session (282) with a question at the index (290) and
\* one after it (191), so the next question of u may be sent (339, 252), and
\* the edit of the message it came from (331) takes no buttons off a message
\* of u
AddsPrompt(sessions, u, data, source) ==
    /\ DataWellFormed(data)
    /\ DataUser(data) = u
    /\ source.owner # u
    /\ sessions[u] # None
    /\ sessions[u].current_question + 1 < Len(sessions[u].questions)

-----------------------------------------------------------------------------
(* The answers graded for a session, in arrival order *)

\* graded: how many answers bot.py:295-300 has graded for the session;
\* hits: how many of them, the k-th taken against question k, carried that
\* question's correct_answer.  The tally is kept while the answers arrive one
\* per question and in order, and is void from the first answer that is
\* graded while an earlier one has not moved the index on.
ZeroTally == [graded |-> 0, hits |-> 0]

VoidTally == [graded |-> -1, hits |-> 0]

Tallied(t, session, selected_answer) ==
    IF t.graded # session.current_question THEN VoidTally
    ELSE [ graded |-> t.graded + 1,
           hits   |-> t.hits +
                      (IF selected_answer =
                            session.questions[t.graded + 1].correct_answer
                       THEN 1 ELSE 0) ]

-----------------------------------------------------------------------------
(* The handler frame *)

NoFrame ==
    [ handler         |-> "none",
      effective_user  |-> 0,
      user_id         |-> 0,
      args            |-> <<>>,       \* context.args of a /quiz update
      topic           |-> <<>>,
      num_questions   |-> 0,          \* 0: no number accepted
      data            |-> <<>>,       \* the callback data of an answer update
      pressed         |-> NoButtons,  \* the message the answer update came from
      origin          |-> "",         \* the button that sent its data, or "forged"
      selected_answer |-> "",
      current_idx     |-> -1,
      is_correct      |-> FALSE,
      resp            |-> NotCalled,  \* what requests.post gave, once it was called
      before          |-> None,       \* user_sessions when the handler began
      message         |-> None,       \* the result message built at bot.py:193-207
      result          |-> None,       \* the result message once its reply returned
      tally           |-> ZeroTally,  \* the tally of the session the result is of
      outcome         |-> "none",     \* what the handler decided
      raised          |-> "none" ]    \* the exception that ended the handler, if one did

\* an awaited Telegram call returns (ok) or raises; at most MaxFaults raise
Await(ok) ==
    IF ok THEN faults' = faults
    ELSE faults < MaxFaults /\ faults' = faults + 1

\* the handler ends: by return (raised = "none"), or by an exception that
\* leaves it and that the application logs
Finish(f, raised) ==
    /\ pc' = "done"
    /\ frame' = [f EXCEPT !.raised = raised]

\* the session object the handler's local variable refers to is the stored
\* one, so a write through it is a write to user_sessions[user_id]
SessionUpdated(sessions, user_id, session) ==
    [sessions EXCEPT ![user_id] = session]

-----------------------------------------------------------------------------
(* Initial state: bot.py:31, no handler running *)

Init ==
    /\ user_sessions = [u \in Users |-> None]
    /\ pc = "idle"
    /\ frame = NoFrame
    /\ reported = [u \in Users |-> 0]
    /\ faults = 0
    /\ prompts = [u \in Users |-> NoPrompts]
    /\ tally = [u \in Users |-> ZeroTally]

-----------------------------------------------------------------------------
(* quiz_command, bot.py:76-176 *)

\* bot.py:78-113: /quiz from user u with context.args = args, up to the first
\* await: the usage reply (84), the range reply (104) or the loading reply (110)
quiz_command_begin(u, args) ==
    /\ pc = "idle"
    /\ LET rejected == Len(args) < 2 \/ ~ NumberAccepted(ParsedNumber(args))
       IN  /\ ~ rejected => Shown(prompts[u]) < MaxShown
           /\ frame' = [NoFrame EXCEPT
                          !.handler = "quiz_command",
                          !.effective_user = u,
                          !.user_id = u,
                          !.args = args,
                          !.topic = IF Len(args) < 2 THEN <<>> ELSE ParsedTopic(args),
                          !.num_questions =
                              IF rejected THEN 0 ELSE IntOf(ParsedNumber(args)),
                          !.before = user_sessions,
                          !.outcome = IF rejected THEN "InvalidRequest" ELSE "none"]
           /\ pc' = IF Len(args) < 2 THEN "qz_usage"
                    ELSE IF rejected THEN "qz_range"
                    ELSE "qz_loading"
    /\ UNCHANGED <<user_sessions, reported, faults, prompts, tally>>

\* bot.py:84-89, 104-107: the reply that rejects the command, then return
quiz_command_rejected ==
    /\ pc \in {"qz_usage", "qz_range"}
    /\ \E ok \in BOOLEAN :
          /\ Await(ok)
          /\ Finish(frame, IF ok THEN "none" ELSE "TelegramError")
    /\ UNCHANGED <<user_sessions, reported, prompts, tally>>

\* bot.py:110-146: the loading reply returns; requests.post (a blocking call,
\* no await) gives resp; a usable answer is stored as the user's session and
\* the loading message is deleted (146), anything else goes to an except
\* clause (151-176).  If the loading reply raises, the handler ends there.
quiz_command_post ==
    /\ pc = "qz_loading"
    /\ \E ok \in BOOLEAN :
          /\ Await(ok)
          /\ IF ~ ok
             THEN /\ Finish(frame, "TelegramError")
                  /\ UNCHANGED <<user_sessions, reported, prompts, tally>>
             ELSE \E resp \in PostOutcomes(frame.topic, frame.num_questions) :
                     IF PostUsable(resp)
                     THEN /\ user_sessions' =
                                StoreSession(user_sessions, frame.user_id, NewSession(resp.body))
                          /\ reported' = [reported EXCEPT ![frame.user_id] = 0]
                          /\ prompts' = [prompts EXCEPT ![frame.user_id] = PromptsOrphaned(@)]
                          /\ tally' = [tally EXCEPT ![frame.user_id] = ZeroTally]
                          /\ frame' = [frame EXCEPT !.resp = resp, !.outcome = "Started"]
                          /\ pc' = "qz_delete"
                     ELSE /\ frame' = [frame EXCEPT !.resp = resp,
                                                    !.outcome = "ContentUnavailable"]
                          /\ pc' = "qz_except"
                          /\ UNCHANGED <<user_sessions, reported, prompts, tally>>

\* EnterSendQuestion with the session removed before the result is sent, the
\* del of line 217 left where it is
EnterSendQuestionRemovingFirst ==
    LET branch == SendQuestionBranch(user_sessions, frame.user_id)
    IN  CASE branch = "return" -> Finish(frame, "none") /\ UNCHANGED user_sessions
          [] branch = "sq_question" ->
                pc' = "sq_question" /\ frame' = frame /\ UNCHANGED user_sessions
          [] branch = "sq_result" ->
                /\ pc' = "sq_result"
                /\ frame' = [frame EXCEPT
                      !.message = ResultMessage(GetSession(user_sessions, frame.user_id))]
                /\ user_sessions' = DeleteSession(user_sessions, frame.user_id)
          [] branch = "ZeroDivisionError" ->
                /\ IF frame.handler = "quiz_command"
                   THEN pc' = "qz_except" /\ frame' = frame
                   ELSE Finish(frame, "ZeroDivisionError")
                /\ UNCHANGED user_sessions

\* send_question(update, context, user_id) called by the running handler, up
\* to its await (bot.py:179-258)
EnterSendQuestion ==
    LET branch == SendQuestionBranch(user_sessions, frame.user_id)
    IN  /\ CASE branch = "return" -> Finish(frame, "none")
              [] branch = "sq_question" -> pc' = "sq_question" /\ frame' = frame
              [] branch = "sq_result" ->
                    /\ pc' = "sq_result"
                    /\ frame' = [frame EXCEPT
                          !.message = ResultMessage(GetSession(user_sessions, frame.user_id))]
              [] branch = "ZeroDivisionError" ->
                    IF frame.handler = "quiz_command"
                    THEN pc' = "qz_except" /\ frame' = frame
                    ELSE Finish(frame, "ZeroDivisionError")
        /\ UNCHANGED user_sessions

\* bot.py:146-149: the delete of the loading message returns and
\* send_question runs to its await; if the delete raises, except Exception
\* (172) catches it
quiz_command_send_first ==
    /\ pc = "qz_delete"
    /\ \E ok \in BOOLEAN :
          /\ Await(ok)
          /\ IF ok THEN EnterSendQuestion
             ELSE pc' = "qz_except" /\ frame' = frame /\ UNCHANGED user_sessions
    /\ UNCHANGED <<reported, prompts, tally>>

\* bot.py:151-176: the edit_text of an except clause, then the handler ends
quiz_command_except ==
    /\ pc = "qz_except"
    /\ \E ok \in BOOLEAN :
          /\ Await(ok)
          /\ Finish(frame, IF ok THEN "none" ELSE "TelegramError")
    /\ UNCHANGED <<user_sessions, reported, prompts, tally>>

-----------------------------------------------------------------------------
(* send_question after its await, bot.py:211-218 and 252-261 *)

\* an exception raised inside send_question: quiz_command catches it
\* (bot.py:172), answer_callback does not
RaiseInSendQuestion(raised) ==
    IF frame.handler = "quiz_command"
    THEN pc' = "qz_except" /\ frame' = frame
    ELSE Finish(frame, raised)

\* bot.py:252-261: the reply with the question returns and the handler ends
send_question_sent ==
    /\ pc = "sq_question"
    /\ \E ok \in BOOLEAN :
          /\ Await(ok)
          /\ IF ok
             THEN /\ Finish(frame, "none")
                  /\ prompts' = [prompts EXCEPT ![frame.user_id].live = TRUE]
             ELSE /\ RaiseInSendQuestion("TelegramError")
                  /\ UNCHANGED prompts
    /\ UNCHANGED <<user_sessions, reported, tally>>

\* bot.py:211-218: the reply with the result returns, the session is deleted
\* (del raises KeyError when the key is absent) and the handler ends; if the
\* reply raises, line 217 is not reached
send_question_result_sent ==
    /\ pc = "sq_result"
    /\ \E ok \in BOOLEAN :
          /\ Await(ok)
          /\ IF ~ ok
             THEN /\ RaiseInSendQuestion("TelegramError")
                  /\ UNCHANGED <<user_sessions, reported, prompts, tally>>
             ELSE /\ reported' = [reported EXCEPT ![frame.user_id] = @ + 1]
                  /\ IF DeleteRaises(user_sessions, frame.user_id)
                     THEN /\ RaiseInSendQuestion("KeyError")
                          /\ UNCHANGED <<user_sessions, prompts, tally>>
                     ELSE /\ user_sessions' = DeleteSession(user_sessions, frame.user_id)
                          /\ prompts' = [prompts EXCEPT ![frame.user_id] = PromptsOrphaned(@)]
                          /\ tally' = [tally EXCEPT ![frame.user_id] = ZeroTally]
                          /\ Finish([frame EXCEPT !.result = frame.message,
                                                  !.tally = tally[frame.user_id]], "none")

-----------------------------------------------------------------------------
(* answer_callback, bot.py:264-339 *)

\* bot.py:266-267: a callback query matching "^answer_" sent by user u with
\* this data on that message; the handler runs to the await of query.answer()
answer_callback_begin(u, data, source) ==
    /\ pc = "idle"
    /\ CanPress(prompts, source)
    /\ AddsPrompt(user_sessions, u, data, source) => Shown(prompts[u]) < MaxShown
    /\ frame' = [NoFrame EXCEPT
                   !.handler = "answer_callback",
                   !.effective_user = u,
                   !.data = data,
                   !.pressed = source,
                   !.origin = Origin(data, source),
                   !.before = user_sessions]
    /\ pc' = "ac_answer"
    /\ UNCHANGED <<user_sessions, reported, faults, prompts, tally>>

\* bot.py:269-331: parse the data (ValueError when it does not split into
\* three parts with a number last), check the user, look the session up, read
\* questions[current_idx] (IndexError when the index is past the end), add 1
\* to the score of a correct answer, and await the edit of the message
answer_callback_grade ==
    /\ pc = "ac_answer"
    /\ \E ok \in BOOLEAN :
          /\ Await(ok)
          /\ LET user_id == DataUser(frame.data)
                 selected_answer == DataLabel(frame.data)
                 session == GetSession(user_sessions, user_id)
                 f == [frame EXCEPT !.user_id = user_id,
                                    !.selected_answer = selected_answer]
             IN  IF ~ ok
                 THEN Finish(frame, "TelegramError") /\ UNCHANGED <<user_sessions, tally>>
                 ELSE IF ~ DataWellFormed(frame.data)
                 THEN Finish(frame, "ValueError") /\ UNCHANGED <<user_sessions, tally>>
                 ELSE IF NotYourQuiz(frame.effective_user, user_id)
                 THEN /\ pc' = "ac_alert"
                      /\ frame' = [f EXCEPT !.outcome = "NotYourQuiz"]
                      /\ UNCHANGED <<user_sessions, tally>>
                 ELSE IF session = None
                 THEN /\ pc' = "ac_expired"
                      /\ frame' = [f EXCEPT !.outcome = "NoActiveSession"]
                      /\ UNCHANGED <<user_sessions, tally>>
                 ELSE IF session.current_question >= Total(session)
                 THEN Finish(f, "IndexError") /\ UNCHANGED <<user_sessions, tally>>
                 ELSE /\ user_sessions' =
                            SessionUpdated(user_sessions, user_id,
                                           Graded(session, selected_answer))
                      /\ tally' = [tally EXCEPT ![user_id] =
                                      Tallied(@, session, selected_answer)]
                      /\ frame' = [f EXCEPT
                            !.current_idx = session.current_question,
                            !.is_correct =
                                IsCorrect(selected_answer,
                                          session.questions[session.current_question + 1]),
                            !.outcome = "Graded"]
                      /\ pc' = "ac_edit"
    /\ UNCHANGED <<reported, prompts>>

\* bot.py:279-280, 285-286: the alert, or the "session expired" edit of the
\* pressed message, then return
answer_callback_rejected ==
    /\ pc \in {"ac_alert", "ac_expired"}
    /\ \E ok \in BOOLEAN :
          /\ Await(ok)
          /\ Finish(frame, IF ok THEN "none" ELSE "TelegramError")
          /\ prompts' = IF ok /\ pc = "ac_expired"
                        THEN PromptsAfterEdit(prompts, frame.pressed)
                        ELSE prompts
    /\ UNCHANGED <<user_sessions, reported, tally>>

\* bot.py:331-338: the edit with the graded question returns, the index moves
\* on and the handler sleeps; if the edit raises, line 334 is not reached
answer_callback_advance ==
    /\ pc = "ac_edit"
    /\ \E ok \in BOOLEAN :
          /\ Await(ok)
          /\ IF ok
             THEN /\ user_sessions' =
                        SessionUpdated(user_sessions, frame.user_id,
                                       Advanced(GetSession(user_sessions, frame.user_id)))
                  /\ prompts' = [PromptsAfterEdit(prompts, frame.pressed) EXCEPT
                                    ![frame.user_id] = PromptsAfterAdvance(@)]
                  /\ pc' = "ac_sleep"
                  /\ frame' = frame
             ELSE /\ Finish(frame, "TelegramError")
                  /\ UNCHANGED <<user_sessions, prompts>>
    /\ UNCHANGED <<reported, tally>>

\* bot.py:338-339: the sleep is over and send_question runs to its await
answer_callback_send_next ==
    /\ pc = "ac_sleep"
    /\ EnterSendQuestion
    /\ UNCHANGED <<reported, faults, prompts, tally>>

-----------------------------------------------------------------------------
(* The application's update loop, bot.py:352-362 *)

\* the handler of the update has ended (returned, or raised and was logged);
\* the application takes up the next update
update_processed ==
    /\ pc = "done"
    /\ pc' = "idle"
    /\ frame' = NoFrame
    /\ UNCHANGED <<user_sessions, reported, faults, prompts, tally>>

-----------------------------------------------------------------------------

Next ==
    \/ /\ pc = "idle"
       /\ \E u \in Users, args \in ArgLists : quiz_command_begin(u, args)
    \/ quiz_command_rejected
    \/ quiz_command_post
    \/ quiz_command_send_first
    \/ quiz_command_except
    \/ send_question_sent
    \/ send_question_result_sent
    \/ /\ pc = "idle"
       /\ \E u \in Users, data \in PressedData, source \in Sources :
             answer_callback_begin(u, data, source)
    \/ answer_callback_grade
    \/ answer_callback_rejected
    \/ answer_callback_advance
    \/ answer_callback_send_next
    \/ update_processed

Spec == Init /\ [][Next]_vars

-----------------------------------------------------------------------------
(* The result of a finished quiz, for every number of questions /quiz takes *)

\* bot.py:100: if num_questions < 3 or num_questions > 30
MinCount == 3

MaxCount == 30

\* user 1 has a quiz of n questions, MinCount <= n <= MaxCount; the last
\* answer has been graded, the index moved on to n with that score, and the
\* handler is in its sleep (bot.py:338)
InitTier ==
    \E n \in MinCount..MaxCount : \E score \in 0..n, label \in Labels :
        LET questions == QuestionList(n)
            is_correct == IsCorrect(label, questions[n])
            gained == IF is_correct THEN 1 ELSE 0
            session(i, sc) ==
                [ topic            |-> TopicWord,
                  questions        |-> questions,
                  current_question |-> i,
                  score            |-> sc ]
        IN  /\ score - gained >= 0 /\ score - gained <= n - 1
            /\ user_sessions = [u \in Users |-> IF u = 1 THEN session(n, score) ELSE None]
            /\ pc = "ac_sleep"
            /\ frame = [NoFrame EXCEPT
                          !.handler = "answer_callback",
                          !.effective_user = 1,
                          !.user_id = 1,
                          !.data = CallbackData(label, 1),
                          !.pressed = [owner |-> 1, kind |-> "live"],
                          !.origin = "live",
                          !.selected_answer = label,
                          !.current_idx = n - 1,
                          !.is_correct = is_correct,
                          !.before = [u \in Users |->
                                        IF u = 1 THEN session(n - 1, score - gained)
                                        ELSE None],
                          !.outcome = "Graded"]
            /\ reported = [u \in Users |-> 0]
            /\ faults = 0
            /\ prompts = [u \in Users |-> NoPrompts]
            /\ tally = [u \in Users |->
                          IF u = 1 THEN [graded |-> n, hits |-> score] ELSE ZeroTally]

\* the rest of that handler: send_question builds and sends the result
NextTier ==
    \/ answer_callback_send_next
    \/ send_question_result_sent
    \/ update_processed

SpecTier == InitTier /\ [][NextTier]_vars

-----------------------------------------------------------------------------
(* The bot with a transport whose calls succeed and owners who answer the   *)
(* question they are shown and do not send /quiz while their quiz is on    *)

\* user u presses a button of the live question message of their quiz
OwnerAnswers(u) ==
    \E label \in Labels :
        answer_callback_begin(u, CallbackData(label, u), [owner |-> u, kind |-> "live"])

\* a step of the running handler in which the awaited call returns
HandlerStep ==
    /\ \/ quiz_command_rejected
       \/ quiz_command_post
       \/ quiz_command_send_first
       \/ quiz_command_except
       \/ send_question_sent
       \/ send_question_result_sent
       \/ answer_callback_grade
       \/ answer_callback_rejected
       \/ answer_callback_advance
       \/ answer_callback_send_next
       \/ update_processed
    /\ faults' = faults

NextLive ==
    \/ \E u \in Users, args \in ArgLists :
          GetSession(user_sessions, u) = None /\ quiz_command_begin(u, args)
    \/ \E u \in Users : OwnerAnswers(u)
    \/ \E u \in Users, label \in Labels, owner \in Users :
          /\ u # owner
          /\ answer_callback_begin(u, CallbackData(label, owner),
                                   [owner |-> owner, kind |-> "live"])
    \/ HandlerStep

\* the event loop carries the running handler on until it ends (weak
\* fairness of its steps), and the updates wait in the application's queue
\* in order of arrival, so the press of an owner who keeps answering is taken
\* up after the handlers before it (strong fairness of OwnerAnswers: it is
\* enabled only between two handlers)
SpecLive ==
    /\ Init /\ [][NextLive]_vars
    /\ WF_vars(HandlerStep)
    /\ \A u \in Users : SF_vars(OwnerAnswers(u))

-----------------------------------------------------------------------------
(* Properties *)

Present(u) == user_sessions[u] # None

QuizHandler == frame.handler = "quiz_command"

AnswerHandler == frame.handler = "answer_callback"

\* C1: every stored session has score <= current_question and score <= N,
\* in every reachable state, the states at the awaits of answer_callback and
\* send_question included.
C1_ScoreBounded ==
    \A u \in Users :
        Present(u) =>
            /\ user_sessions[u].score <= user_sessions[u].current_question
            /\ user_sessions[u].score <= Total(user_sessions[u])

\* C2: whenever /quiz with a count in 3..30 has stored a session, that session
\* has current_question = 0, score = 0 and exactly count questions.
C2_ExactlyCountQuestions ==
    (QuizHandler /\ frame.outcome = "Started" /\ pc = "qz_delete") =>
        /\ Present(frame.user_id)
        /\ user_sessions[frame.user_id].current_question = 0
        /\ user_sessions[frame.user_id].score = 0
        /\ Total(user_sessions[frame.user_id]) = frame.num_questions

\* the failures of the content provider call that C3 names
ProviderFailed(resp) ==
    \/ resp.exc \in {"ConnectionError", "Timeout", "RequestException"}
    \/ resp.exc = "none" /\ resp.status # 200
    \/ resp.exc = "none" /\ ~ ("topic" \in resp.body.keys /\ "questions" \in resp.body.keys)

\* C3: if the content provider call of /quiz fails, the session store is what
\* it was when the command began, from the failure to the end of the handler.
C3_FailedCallKeepsStore ==
    (QuizHandler /\ ProviderFailed(frame.resp)) => user_sessions = frame.before

\* a failed call by an owner whose quiz was in progress, handler ended
C3_Witness ==
    /\ pc = "done" /\ QuizHandler
    /\ frame.resp.exc = "none" /\ frame.resp.status = 200
    /\ frame.resp.body.keys = {"questions"}
    /\ frame.before[frame.user_id] # None
    /\ frame.before[frame.user_id].current_question > 0
    /\ user_sessions[frame.user_id] = frame.before[frame.user_id]

\* the count word of a /quiz command is not an integer or is outside 3..30
CountRejected(args) ==
    /\ Len(args) >= 2
    /\ \/ ~ IsIntLiteral(args[Len(args)])
       \/ IntOf(args[Len(args)]) < 3
       \/ IntOf(args[Len(args)]) > 30

\* C4: /quiz with a count below 3, above 30 or not an integer is rejected as
\* InvalidRequest: requests.post is never called and the session store stays
\* what it was when the command began.
C4_BadCountRejected ==
    (QuizHandler /\ CountRejected(frame.args)) =>
        /\ frame.outcome = "InvalidRequest"
        /\ frame.resp = NotCalled
        /\ user_sessions = frame.before
        /\ pc \in {"qz_range", "done"}

\* /quiz Go 2 by an owner whose quiz was in progress, handler ended
C4_Witness ==
    /\ pc = "done" /\ QuizHandler
    /\ frame.args = <<TopicWord, <<"2">>>>
    /\ frame.raised = "none"
    /\ frame.before[frame.user_id] # None
    /\ frame.before[frame.user_id].current_question > 0

\* the running answer_callback has graded an answer and moved the index on
AnswerAccepted ==
    /\ AnswerHandler /\ frame.outcome = "Graded"
    /\ Present(frame.user_id) =>
          user_sessions[frame.user_id].current_question = frame.current_idx + 1

\* C5: when the handler of the N-th accepted answer of a quiz of N questions
\* has ended, the result message has been sent with the final score, N and
\* the percentage 100*score/N (to one decimal), and the session is removed.
C5_FinalResult ==
    (/\ pc = "done" /\ AnswerAccepted
     /\ frame.current_idx + 1 = Total(frame.before[frame.user_id])) =>
        LET old == frame.before[frame.user_id]
            n == Total(old)
            score == old.score + (IF frame.is_correct THEN 1 ELSE 0)
        IN  /\ frame.result # None
            /\ frame.result.score = score
            /\ frame.result.total = n
            /\ 2 * (frame.result.percentage * n - 1000 * score) <= n
            /\ 2 * (1000 * score - frame.result.percentage * n) <= n
            /\ ~ Present(frame.user_id)

\* C6: over a whole handler, the current_question and score of a session that
\* was there before and is still there (and was not replaced by /quiz) either
\* stay as they were, or the handler is an accepted answer of that owner and
\* current_question grew by 1 and score by 1 for a correct answer, 0 otherwise.
C6_OneStepPerAnswer ==
    pc = "done" =>
        \A u \in Users :
            (/\ frame.before[u] # None /\ Present(u)
             /\ ~ (QuizHandler /\ frame.user_id = u /\ frame.outcome = "Started")) =>
                LET d_idx == user_sessions[u].current_question
                                - frame.before[u].current_question
                    d_score == user_sessions[u].score - frame.before[u].score
                IN  \/ d_idx = 0 /\ d_score = 0
                    \/ /\ AnswerHandler /\ frame.user_id = u /\ frame.outcome = "Graded"
                       /\ d_idx = 1
                       /\ d_score =
                            IF frame.selected_answer =
                                 frame.before[u].questions[frame.current_idx + 1].correct_answer
                            THEN 1 ELSE 0

\* C7: from the moment /quiz has stored a session to the end of the handler,
\* the owner's session is the new one: the questions and topic of the
\* provider's answer, current_question = 0, score = 0, no result reported for
\* it; nothing of the session the owner had before is in it, and the other
\* users' sessions are what they were.
C7_NewQuizReplacesOld ==
    (QuizHandler /\ frame.outcome = "Started") =>
        /\ user_sessions[frame.user_id] =
              [ topic            |-> frame.resp.body.topic,
                questions        |-> frame.resp.body.questions,
                current_question |-> 0,
                score            |-> 0 ]
        /\ reported[frame.user_id] = 0
        /\ \A v \in Users \ {frame.user_id} : user_sessions[v] = frame.before[v]

\* /quiz by an owner whose quiz was in progress with a score, handler ended
\* with the first question of the new quiz shown
C7_Witness ==
    /\ pc = "done" /\ QuizHandler /\ frame.outcome = "Started"
    /\ frame.raised = "none"
    /\ frame.before[frame.user_id] # None
    /\ frame.before[frame.user_id].current_question > 0
    /\ frame.before[frame.user_id].score > 0
    /\ Total(user_sessions[frame.user_id]) > 0

\* C8: an answer of the owner whose label is not one of A..D is rejected as
\* InvalidInput, session or no session, and leaves the owner's session as it
\* was.
C8_LabelValidatedFirst ==
    (/\ AnswerHandler
     /\ frame.selected_answer # "" /\ frame.selected_answer \notin Labels
     /\ frame.effective_user = frame.user_id) =>
        /\ frame.outcome = "InvalidInput"
        /\ user_sessions[frame.user_id] = frame.before[frame.user_id]

\* C9: the result of a session is reported at most once, and when a handler
\* has ended every stored session that has reached current_question = N has
\* had its result reported once.
C9_ReportedExactlyOnce ==
    /\ \A u \in Users : reported[u] <= 1
    /\ pc \in {"idle", "done"} =>
          \A u \in Users :
              (Present(u) /\ QuizFinished(user_sessions[u])) => reported[u] = 1

\* C10: in one step, the (current_question, score) of a session that stays in
\* the store (and is not replaced by /quiz) is unchanged or goes from (i, s)
\* to (i+1, s) or (i+1, s+1).
C10_AtomicUpdate ==
    [][ \A u \in Users :
          (/\ user_sessions[u] # None /\ user_sessions'[u] # None
           /\ pc # "qz_loading") =>
              LET i == user_sessions[u].current_question
                  sc == user_sessions[u].score
                  i2 == user_sessions'[u].current_question
                  sc2 == user_sessions'[u].score
              IN  \/ i2 = i /\ sc2 = sc
                  \/ i2 = i + 1 /\ sc2 = sc
                  \/ i2 = i + 1 /\ sc2 = sc + 1 ]_vars

\* the application takes up an update of a user other than the one whose
\* handler is running: the handler of that update begins
OtherOwnerTakenUp ==
    \E u \in Users \ {frame.user_id} :
        \/ \E args \in ArgLists : quiz_command_begin(u, args)
        \/ \E data \in PressedData, source \in Sources :
              answer_callback_begin(u, data, source)

\* C11: while the answer_callback of one owner is in its 2-second sleep
\* (bot.py:338), an update of another owner can be taken up.
C11_SleepDoesNotBlockOthers ==
    pc = "ac_sleep" => ENABLED OtherOwnerTakenUp

C13_ScoreCountsMatches ==
    (/\ pc = "done" /\ frame.result # None
     /\ frame.tally.graded = frame.result.total) =>
        frame.result.score = frame.tally.hits

\* a quiz of MaxQuestions questions answered in order, all but one answer
\* correct, the last one correct, and its result delivered
C13_Witness ==
    /\ pc = "done" /\ AnswerHandler /\ frame.result # None
    /\ frame.result.total = MaxQuestions
    /\ frame.tally.graded = MaxQuestions
    /\ frame.tally.hits = MaxQuestions - 1
    /\ frame.result.score = MaxQuestions - 1
    /\ frame.is_correct
    /\ frame.origin = "live"

\* C14: for every number of questions N in 3..30 and every score in 0..N, the
\* tier of the result message is top exactly when 100 * score >= 80 * N,
\* middle exactly when 60 * N <= 100 * score < 80 * N, and low exactly when
\* 100 * score < 60 * N.
C14_TierThresholds ==
    frame.message # None =>
        LET score == frame.message.score
            n == frame.message.total
            tier == frame.message.tier
        IN  /\ tier \in {"top", "middle", "low"}
            /\ tier = "top" <=> 100 * score >= 80 * n
            /\ tier = "middle" <=> (60 * n <= 100 * score /\ 100 * score < 80 * n)
            /\ tier = "low" <=> 100 * score < 60 * n

\* the result of a quiz of MaxCount questions with 60 percent of them right
\* has been delivered, in the middle tier
C14_Witness ==
    /\ pc = "done" /\ frame.result # None
    /\ frame.result.total = MaxCount
    /\ 100 * frame.result.score = 60 * MaxCount
    /\ frame.result.tier = "middle"
    /\ frame.result.percentage = 600

\* C15: /quiz with a topic of more than 100 characters is rejected as
\* InvalidRequest: requests.post is never called for it, the handler ends
\* with that outcome, and the session store stays what it was when the
\* command began.
C15_LongTopicRejected ==
    (QuizHandler /\ Len(frame.topic) > MaxTopicLength) =>
        /\ frame.resp = NotCalled
        /\ user_sessions = frame.before
        /\ pc = "done" => frame.outcome = "InvalidRequest"

\* C16: an answer sent by the owner from a stale message (a question message
\* of a session of theirs that was replaced or removed) is never graded: the
\* only outcome the handler decides on is NoActiveSession, and the session
\* store stays what it was when the answer arrived.
C16_StalePromptNotGraded ==
    (/\ AnswerHandler /\ frame.origin = "stale"
     /\ frame.effective_user = frame.user_id) =>
        /\ frame.outcome \in {"none", "NoActiveSession"}
        /\ user_sessions = frame.before

\* C17: no handler ends with an exception raised by its access to the
\* session: answer_callback never finds a session whose current_question is
\* not below the number of its questions, so questions[current_idx]
\* (bot.py:290) never raises IndexError.
C17_IndexInRange ==
    AnswerHandler => frame.raised # "IndexError"

\* C19: an answer callback sent by a user whose id is not the owner id in
\* its data is rejected as NotYourQuiz and leaves every session as it was:
\* from its arrival to the end of its handler the session store is what it
\* was, and the only outcome the handler decides on is NotYourQuiz.
C19_OtherUsersPressRejected ==
    (/\ AnswerHandler /\ DataWellFormed(frame.data)
     /\ frame.effective_user # DataUser(frame.data)) =>
        /\ user_sessions = frame.before
        /\ pc \in {"ac_answer", "ac_alert", "done"}
        /\ frame.outcome \in {"none", "NotYourQuiz"}
        /\ frame.selected_answer # "" => frame.outcome = "NotYourQuiz"

\* user 2 pressed a button of the live question message of user 1, whose
\* quiz is under way; the handler has ended
C19_Witness ==
    /\ pc = "done" /\ AnswerHandler
    /\ frame.effective_user # frame.user_id
    /\ frame.origin = "live"
    /\ frame.outcome = "NotYourQuiz" /\ frame.raised = "none"
    /\ Present(frame.user_id)
    /\ user_sessions[frame.user_id].current_question > 0
    /\ frame.selected_answer =
          user_sessions[frame.user_id].questions[
              user_sessions[frame.user_id].current_question + 1].correct_answer

\* C20: with calls that succeed, an owner who answers every question shown
\* and sends no /quiz meanwhile, every stored session of N >= 1 questions
\* leads to the handler that delivers its result, with current_question
\* having reached N, and removes the session.
C20_QuizTerminates ==
    \A u \in Users :
        (Present(u) /\ Total(user_sessions[u]) >= 1) ~>
            (/\ pc = "done" /\ frame.user_id = u
             /\ frame.result # None
             /\ frame.result.total = frame.current_idx + 1
             /\ ~ Present(u))

\* both users have had a quiz of MaxQuestions questions; the result of the
\* second to finish has just been delivered
C20_Witness ==
    /\ pc = "done" /\ frame.result # None
    /\ frame.result.total = MaxQuestions
    /\ frame.tally.graded = MaxQuestions
    /\ faults = 0
    /\ \A u \in Users : ~ Present(u) /\ reported[u] = 1

====
